---- MODULE Spec2Model ----
(***************************************************************************)
(* Model of random_access_unicode (src/src/lib.rs): MappedFile, a byte     *)
(* buffer with a cache of line-ending positions, and its one query         *)
(* unicode_at.  The buffer is a sequence of bytes (0..255), offsets are    *)
(* 0-based as in the source, and usize arithmetic keeps a width.           *)
(***************************************************************************)
EXTENDS Integers, Sequences, FiniteSets, TLC

\* ------------------------------------------------------------------ bounds

\* Longest buffer, in bytes.
MaxLen == 3

\* Most unicode_at calls made on one MappedFile.
MaxCalls == 3

\* Width of usize in the model (64 in the program's usual build).
UsizeBits == 8

UsizeModulus == 2 ^ UsizeBits

UsizeMax == UsizeModulus - 1

\* The bytes buffers are built from: line feed, 'a', 'b', and the two bytes of
\* U+00E9 (0xC3 0xA9), which alone or out of order are malformed UTF-8.
LF == 10

ByteAlphabet == {LF, 97, 98, 195, 169}

\* The buffer of tests/read.rs.
HelloWorld == <<72, 101, 108, 108, 111, 10, 119, 111, 114, 108, 100, 33, 10>>

RECURSIVE SeqsUpTo(_, _)
SeqsUpTo(S, n) ==
    IF n = 0 THEN {<<>>}
    ELSE LET shorter == SeqsUpTo(S, n - 1)
         IN  shorter \cup {Append(s, b) : s \in {t \in shorter : Len(t) = n - 1}, b \in S}

Buffers == SeqsUpTo(ByteAlphabet, MaxLen)

\* The indices a caller passes: every index of the buffer, one past it, and the
\* largest usize.
Indices == (0 .. MaxLen) \cup {UsizeMax}

\* ------------------------------------------------------------------ UTF-8

IsCont(b) == b >= 128 /\ b <= 191

\* Length of the encoding a lead byte announces, 0 for a byte that cannot lead.
LeadLen(b) ==
    IF b < 128 THEN 1
    ELSE IF b >= 194 /\ b <= 223 THEN 2
    ELSE IF b >= 224 /\ b <= 239 THEN 3
    ELSE IF b >= 240 /\ b <= 244 THEN 4
    ELSE 0

\* The second byte of a 3- or 4-byte encoding has a narrower range after some
\* lead bytes (overlong forms, surrogates, beyond U+10FFFF).
SecondOk(lead, b) ==
    IF lead = 224 THEN b >= 160 /\ b <= 191
    ELSE IF lead = 237 THEN b >= 128 /\ b <= 159
    ELSE IF lead = 240 THEN b >= 144 /\ b <= 191
    ELSE IF lead = 244 THEN b >= 128 /\ b <= 143
    ELSE IsCont(b)

\* s[i..] starts with one well-formed encoded character (i is 1-based).
WellFormedAt(s, i) ==
    LET n == LeadLen(s[i])
    IN  /\ n > 0
        /\ i + n - 1 <= Len(s)
        /\ n >= 2 => SecondOk(s[i], s[i + 1])
        /\ \A k \in 2 .. (n - 1) : IsCont(s[i + k])

\* The scalar value of the well-formed character at s[i..].
ScalarAt(s, i) ==
    LET n == LeadLen(s[i])
    IN  IF n = 1 THEN s[i]
        ELSE IF n = 2 THEN (s[i] - 192) * 64 + (s[i + 1] - 128)
        ELSE IF n = 3 THEN (s[i] - 224) * 4096 + (s[i + 1] - 128) * 64 + (s[i + 2] - 128)
        ELSE (s[i] - 240) * 262144 + (s[i + 1] - 128) * 4096
             + (s[i + 2] - 128) * 64 + (s[i + 3] - 128)

\* char::len_utf8
len_utf8(c) ==
    IF c < 128 THEN 1 ELSE IF c < 2048 THEN 2 ELSE IF c < 65536 THEN 3 ELSE 4

RECURSIVE DecodeFrom(_, _)
\* The characters of s[i..], up to the first malformed sequence, and whether
\* the end was reached without one.
DecodeFrom(s, i) ==
    IF i > Len(s) THEN [ok |-> TRUE, chars |-> <<>>]
    ELSE IF ~WellFormedAt(s, i) THEN [ok |-> FALSE, chars |-> <<>>]
    ELSE LET rest == DecodeFrom(s, i + LeadLen(s[i]))
         IN  [ok |-> rest.ok, chars |-> <<ScalarAt(s, i)>> \o rest.chars]

\* std::str::from_utf8: Ok(the characters) or Err.
from_utf8(s) ==
    LET d == DecodeFrom(s, 1)
    IN  IF d.ok THEN [ok |-> TRUE, chars |-> d.chars] ELSE [ok |-> FALSE, chars |-> <<>>]

\* &map[from..to], 0-based, end exclusive.
Slice(s, from, to) == SubSeq(s, from + 1, to)

\* ------------------------------------------------------------------ values

\* CharPosition
CharPosition(bp, cp) == [byte_position |-> bp, char_position |-> cp]

\* Result<char, IndexError>, and Panic for a call that unwinds instead of returning.
Ok(c) == [kind |-> "Ok", char |-> c]

OutOfBounds == [kind |-> "OutOfBounds", char |-> -1]

InvalidChar == [kind |-> "InvalidChar", char |-> -1]

Panic == [kind |-> "Panic", char |-> -1]

\* Option<char>
Some(c) == [kind |-> "Some", char |-> c]

None == [kind |-> "None", char |-> -1]

\* ------------------------------------------------------------------ MappedFile

VARIABLES
    map,                    \* the mapped bytes
    line_ending_positions,  \* the cache, a sequence of CharPosition
    overflow_checks,        \* the build: TRUE panics on usize overflow, FALSE wraps
    calls                   \* history: the unicode_at calls made, each
                            \* [index, result, before: the cache before the call,
                            \*  walked: the bytes its scan stepped over]

vars == <<map, line_ending_positions, overflow_checks, calls>>

\* MappedFile::new: the cache starts with the position of the start of the file.
NewCache == <<CharPosition(0, 0)>>

\* get_unicode_char_in_line
get_unicode_char_in_line(m, byte_position, index, next_line_byte_position) ==
    IF byte_position > next_line_byte_position \/ next_line_byte_position > Len(m)
    THEN Panic
    ELSE LET temp_str == from_utf8(Slice(m, byte_position, next_line_byte_position))
         IN  IF ~temp_str.ok THEN InvalidChar
             ELSE IF index < Len(temp_str.chars) THEN Ok(temp_str.chars[index + 1])
             ELSE OutOfBounds

\* The windows(2) of the cache that bracket index, by the place of their first element.
BracketingWindows(list, index) ==
    {k \in 1 .. (Len(list) - 1) :
        list[k].char_position < index /\ index <= list[k + 1].char_position}

\* find_with_cache: the first bracketing window answers, and its error is dropped.
find_with_cache(m, list, index) ==
    LET ws == BracketingWindows(list, index)
    IN  IF ws = {} THEN None
        ELSE LET k == CHOOSE w \in ws : \A v \in ws : w <= v
                 r == get_unicode_char_in_line(m, list[k].byte_position,
                          index - list[k].char_position, list[k + 1].byte_position)
             IN  IF r.kind = "Ok" THEN Some(r.char)
                 ELSE IF r.kind = "Panic" THEN Panic
                 ELSE None

RECURSIVE ScanChars(_, _, _, _, _, _)
\* The loop of find_nth_in_str from char_index on: [ret, list, end], end the byte
\* position the loop has advanced to.
ScanChars(chars, char_index, byte_position, list, n, start) ==
    IF char_index >= Len(chars)
    THEN [ret |-> None, list |-> list, end |-> byte_position]
    ELSE LET c == chars[char_index + 1]
             bp == byte_position + len_utf8(c)
             pushed == IF c = LF
                       THEN Append(list, CharPosition(bp, char_index + start.char_position))
                       ELSE list
         IN  IF char_index = n THEN [ret |-> Some(c), list |-> pushed, end |-> bp]
             ELSE ScanChars(chars, char_index + 1, bp, pushed, n, start)

\* find_nth_in_str decoding the whole map instead of the tail from start.
find_nth_in_str_whole_map(m, list, n, start) ==
    LET str == from_utf8(Slice(m, 0, Len(m)))
    IN  IF ~str.ok THEN [ret |-> Panic, list |-> list, walked |-> {}]
        ELSE LET s == ScanChars(str.chars, 0, start.byte_position, list, n, start)
             IN  [ret |-> s.ret, list |-> s.list,
                  walked |-> 0 .. (s.end - start.byte_position - 1)]

\* find_nth_in_str restarting the cache at the scan origin before it pushes.
find_nth_in_str_restarting(m, list, n, start) ==
    IF start.byte_position > Len(m) THEN [ret |-> Panic, list |-> list, walked |-> {}]
    ELSE LET str == from_utf8(Slice(m, start.byte_position, Len(m)))
         IN  IF ~str.ok THEN [ret |-> Panic, list |-> list, walked |-> {}]
             ELSE LET s == ScanChars(str.chars, 0, start.byte_position, <<start>>, n, start)
                  IN  [ret |-> s.ret, list |-> s.list,
                       walked |-> start.byte_position .. (s.end - 1)]

\* find_nth_in_str: [ret, list, walked]; the unwrap of from_utf8 panics on a
\* malformed tail. walked is the set of byte offsets whose characters the loop
\* has stepped over.
find_nth_in_str(m, list, n, start) ==
    IF start.byte_position > Len(m) THEN [ret |-> Panic, list |-> list, walked |-> {}]
    ELSE LET str == from_utf8(Slice(m, start.byte_position, Len(m)))
         IN  IF ~str.ok THEN [ret |-> Panic, list |-> list, walked |-> {}]
             ELSE LET s == ScanChars(str.chars, 0, start.byte_position, list, n, start)
                  IN  [ret |-> s.ret, list |-> s.list,
                       walked |-> start.byte_position .. (s.end - 1)]

\* Extend taking the first cached position, not the last, as the scan origin.
Extend_from_first(m, list, checks, index) ==
    IF Len(list) = 0 THEN [result |-> OutOfBounds, list |-> list, walked |-> {}]
    ELSE LET current == list[1]
         IN  IF index < current.char_position /\ checks
             THEN [result |-> Panic, list |-> list, walked |-> {}]
             ELSE LET n == (index - current.char_position + UsizeModulus) % UsizeModulus
                      f == find_nth_in_str(m, list, n, current)
                  IN  [result |-> IF f.ret.kind = "Some" THEN Ok(f.ret.char)
                                  ELSE IF f.ret.kind = "Panic" THEN Panic
                                  ELSE OutOfBounds,
                       list |-> f.list, walked |-> f.walked]

\* The second half of unicode_at: scan from the last cached position.
Extend(m, list, checks, index) ==
    IF Len(list) = 0 THEN [result |-> OutOfBounds, list |-> list, walked |-> {}]
    ELSE LET current == list[Len(list)]
         IN  IF index < current.char_position /\ checks
             THEN [result |-> Panic, list |-> list, walked |-> {}]
             ELSE LET n == (index - current.char_position + UsizeModulus) % UsizeModulus
                      f == find_nth_in_str(m, list, n, current)
                  IN  [result |-> IF f.ret.kind = "Some" THEN Ok(f.ret.char)
                                  ELSE IF f.ret.kind = "Panic" THEN Panic
                                  ELSE OutOfBounds,
                       list |-> f.list, walked |-> f.walked]

\* unicode_at as a function of the MappedFile and the index: [result, list,
\* walked], walked the bytes stepped over by the scan from the last cached position.
unicode_at(m, list, checks, i) ==
    IF i + 1 > UsizeMax /\ checks
    THEN [result |-> Panic, list |-> list, walked |-> {}]
    ELSE LET index == (i + 1) % UsizeModulus
             found == find_with_cache(m, list, index)
         IN  IF found.kind = "Some"
             THEN [result |-> Ok(found.char), list |-> list, walked |-> {}]
             ELSE IF found.kind = "Panic"
             THEN [result |-> Panic, list |-> list, walked |-> {}]
             ELSE Extend(m, list, checks, index)

\* ------------------------------------------------------------------ behaviour

Panicked == calls # <<>> /\ calls[Len(calls)].result.kind = "Panic"

Init ==
    /\ map \in Buffers
    /\ overflow_checks \in BOOLEAN
    /\ line_ending_positions = NewCache
    /\ calls = <<>>

\* One call of unicode_at(i) on the MappedFile.
Call(i) ==
    LET r == unicode_at(map, line_ending_positions, overflow_checks, i)
    IN  /\ ~Panicked
        /\ line_ending_positions' = r.list
        /\ calls' = Append(calls, [index |-> i, result |-> r.result,
                                    before |-> line_ending_positions,
                                    walked |-> r.walked])
        /\ UNCHANGED <<map, overflow_checks>>

UnicodeAt ==
    /\ Len(calls) < MaxCalls
    /\ \E i \in Indices : Call(i)

Next == UnicodeAt

Spec == Init /\ [][Next]_vars

\* The caller of tests/read.rs: indices 0, 1, 2, ... in order, to one past the end.
InitSeq ==
    /\ map \in Buffers \cup {HelloWorld}
    /\ overflow_checks \in BOOLEAN
    /\ line_ending_positions = NewCache
    /\ calls = <<>>

UnicodeAtInOrder ==
    /\ Len(calls) <= Len(map)
    /\ Call(Len(calls))

NextSeq == UnicodeAtInOrder

SpecSeq == InitSeq /\ [][NextSeq]_vars

\* A caller whose indices increase strictly from call to call.
UnicodeAtIncreasing ==
    /\ Len(calls) < MaxCalls
    /\ \E i \in Indices :
        /\ calls # <<>> => i > calls[Len(calls)].index
        /\ Call(i)

NextInc == UnicodeAtIncreasing

SpecInc == Init /\ [][NextInc]_vars

\* ------------------------------------------------------------------ reference

\* The buffer is well-formed UTF-8.
ValidBuffer == from_utf8(map).ok

\* A full linear decode of the buffer.
FullDecode == from_utf8(map).chars

total_char_count == Len(FullDecode)

\* index + 1 is a usize.
Representable(i) == i + 1 <= UsizeMax

\* What the call calls[k] has to return on a well-formed buffer.
Expected(k) ==
    IF calls[k].index < total_char_count
    THEN Ok(FullDecode[calls[k].index + 1])
    ELSE OutOfBounds

IsError(r) == r.kind \in {"OutOfBounds", "InvalidChar"}

RECURSIVE InOrderRun(_, _, _, _)
\* The calls unicode_at(i), i in S, made in increasing order on a MappedFile whose
\* cache is list: the set of [index, result] they yield, up to a call that panics.
InOrderRun(m, checks, list, S) ==
    IF S = {} THEN {}
    ELSE LET i == CHOOSE x \in S : \A y \in S : x <= y
             r == unicode_at(m, list, checks, i)
         IN  {[index |-> i, result |-> r.result]}
             \cup (IF r.result.kind = "Panic" THEN {}
                   ELSE InOrderRun(m, checks, r.list, S \ {i}))

\* The bytes unicode_at(i) has to decode when the cache is list: the first
\* bracketing line, or else the tail from the last cached position.
QueriedSpan(list, i) ==
    LET ws == BracketingWindows(list, i + 1)
    IN  IF ws # {}
        THEN LET k == CHOOSE w \in ws : \A v \in ws : w <= v
             IN  Slice(map, list[k].byte_position, list[k + 1].byte_position)
        ELSE Slice(map, list[Len(list)].byte_position, Len(map))

\* ------------------------------------------------------------------ claims

\* C1: on a well-formed buffer, every call unicode_at(i) with i < total_char_count,
\* made in any reachable state, returns Ok of the character at position i of a
\* full decode of the buffer.
C1_ValidIndexReturnsItsChar ==
    ValidBuffer =>
        \A k \in 1 .. Len(calls) :
            calls[k].index < total_char_count =>
                calls[k].result = Ok(FullDecode[calls[k].index + 1])

\* C2: on a fresh MappedFile over a well-formed buffer of n characters, the calls
\* unicode_at(0), ..., unicode_at(n-1) made in this order return the characters of
\* the buffer in order and the following unicode_at(n) returns OutOfBounds (checked
\* under SpecSeq, whose buffers include "Hello\nworld!\n").
C2_InOrderCallsReturnBuffer ==
    ValidBuffer =>
        \A k \in 1 .. Len(calls) :
            calls[k].index <= total_char_count => calls[k].result = Expected(k)

\* C3: on a well-formed buffer (the empty one included), every call unicode_at(i)
\* with i >= total_char_count and i + 1 representable, made in any reachable state,
\* returns Err(OutOfBounds).
C3_PastEndIsOutOfBounds ==
    ValidBuffer =>
        \A k \in 1 .. Len(calls) :
            (calls[k].index >= total_char_count /\ Representable(calls[k].index)) =>
                calls[k].result = OutOfBounds

\* A past-the-end call answered OutOfBounds by a MappedFile whose cache already
\* holds line endings of a non-empty buffer.
C3_Witness ==
    /\ ValidBuffer
    /\ total_char_count > 0
    /\ \E k \in 2 .. Len(calls) :
        /\ Len(calls[k].before) > 1
        /\ calls[k].index >= total_char_count
        /\ Representable(calls[k].index)
        /\ calls[k].result = OutOfBounds

\* C4: idempotence: any two calls unicode_at(i) with the same index on the same
\* MappedFile return the same result, consecutive or not (stated for the indices
\* whose successor is representable).
C4_SameIndexSameResult ==
    \A j, k \in 1 .. Len(calls) :
        (calls[j].index = calls[k].index /\ Representable(calls[j].index)) =>
            calls[j].result = calls[k].result

\* C5: query-order independence: queries issued on a fresh MappedFile in any order
\* yield, for each index, the result the same queries yield when issued on another
\* fresh MappedFile over the same buffer in strictly increasing order (stated for
\* distinct indices whose successor is representable, and runs that do not panic).
C5_OrderIndependent ==
    LET S == {calls[k].index : k \in 1 .. Len(calls)}
        inOrder == InOrderRun(map, overflow_checks, NewCache, S)
    IN  ( /\ Cardinality(S) = Len(calls)
          /\ \A i \in S : Representable(i)
          /\ \A k \in 1 .. Len(calls) : calls[k].result.kind # "Panic"
          /\ \A e \in inOrder : e.result.kind # "Panic" )
        => \A k \in 1 .. Len(calls) :
               [index |-> calls[k].index, result |-> calls[k].result] \in inOrder

\* C6: a call whose queried span (a cached line, or the tail from the last cached
\* position) is malformed UTF-8 returns Err(InvalidChar).
C6_MalformedSpanIsInvalidChar ==
    \A k \in 1 .. Len(calls) :
        ( /\ Representable(calls[k].index)
          /\ ~from_utf8(QueriedSpan(calls[k].before, calls[k].index)).ok )
        => calls[k].result = InvalidChar

\* C7: every call unicode_at(i), on any buffer and in any reachable state, returns
\* Ok, Err(OutOfBounds) or Err(InvalidChar) and never panics (stated for the
\* indices whose successor is representable).
C7_NeverPanics ==
    \A k \in 1 .. Len(calls) :
        Representable(calls[k].index) => calls[k].result.kind # "Panic"

\* C8: after a call that returned an error, every later call on a well-formed
\* buffer is correct: the character at i for i < total_char_count, OutOfBounds
\* for i >= total_char_count.
C8_CorrectAfterError ==
    ValidBuffer =>
        \A j, k \in 1 .. Len(calls) :
            (j < k /\ IsError(calls[j].result) /\ Representable(calls[k].index)) =>
                calls[k].result = Expected(k)

\* C9: the cache is strictly increasing in both fields.
C9_StrictlyIncreasing ==
    \A k \in 1 .. (Len(line_ending_positions) - 1) :
        /\ line_ending_positions[k].byte_position
               < line_ending_positions[k + 1].byte_position
        /\ line_ending_positions[k].char_position
               < line_ending_positions[k + 1].char_position

\* C10: every cached position is a true correspondence: the bytes before
\* byte_position encode exactly char_position characters.
C10_TrueCorrespondence ==
    \A k \in 1 .. Len(line_ending_positions) :
        LET before == from_utf8(Slice(map, 0, line_ending_positions[k].byte_position))
        IN  /\ before.ok
            /\ Len(before.chars) = line_ending_positions[k].char_position

\* The logical indices of the line feeds of the buffer.
LineFeedIndices == {k \in 0 .. (total_char_count - 1) : FullDecode[k + 1] = LF}

\* C11: line-feed boundary: on a well-formed buffer with a line feed at logical
\* index k and k + 1 < total_char_count, in every reachable state unicode_at(k)
\* returns the line feed and unicode_at(k + 1) returns the character at k + 1,
\* the first character of the next line.
C11_LineFeedBoundary ==
    ValidBuffer =>
        \A j \in 1 .. Len(calls) :
            \A k \in LineFeedIndices :
                (k + 1 < total_char_count /\ calls[j].index \in {k, k + 1}) =>
                    calls[j].result = Ok(FullDecode[calls[j].index + 1])

\* The per-byte history counter: how many calls' scans from the last cached
\* position have stepped over the byte at offset b.
WalkCount(b) == Cardinality({k \in 1 .. Len(calls) : b \in calls[k].walked})

\* C12 as stated: with strictly increasing queries on a fresh MappedFile, no byte
\* is walked by more than one cache-extension call (stated for the runs whose
\* calls all returned a character).
C12_WalkedAtMostOnce ==
    (\A k \in 1 .. Len(calls) :
        calls[k].result.kind = "Ok" /\ Representable(calls[k].index)) =>
        \A b \in 0 .. (Len(map) - 1) : WalkCount(b) <= 1

\* C12, amended: with strictly increasing queries on a fresh MappedFile, a
\* cache-extension call walks no byte before the last cached position, so the
\* bytes of a line are walked by no extension call once its line feed is cached
\* (the bytes after the last cached position are walked again by every such call).
C12_WalksOnlyPastLastCheckpoint ==
    \A k \in 1 .. Len(calls) :
        \A b \in calls[k].walked :
            /\ b >= calls[k].before[Len(calls[k].before)].byte_position
            /\ b < Len(map)

\* A later extension call that walked bytes after a cached line whose own bytes
\* had been walked once.
C12_Witness ==
    \E k \in 2 .. Len(calls) :
        /\ Len(calls[k].before) > 1
        /\ calls[k].walked # {}
        /\ \E b \in 0 .. (calls[k].before[Len(calls[k].before)].byte_position - 1) :
            WalkCount(b) = 1

\* The number of line feeds among the characters of a well-formed span.
LineFeedCount(chars) == Cardinality({j \in 1 .. Len(chars) : chars[j] = LF})

\* C13: on a well-formed buffer, in every reachable state the first cached
\* position is (0, 0), every other one has its byte_position right after a
\* line-feed byte, every adjacent pair spans exactly one line feed, its last
\* character, and so every line feed before the last cached position is cached,
\* once.
C13_OneLineFeedPerSpan ==
    ValidBuffer =>
        LET list == line_ending_positions
        IN  /\ Len(list) >= 1
            /\ list[1] = CharPosition(0, 0)
            /\ \A k \in 2 .. Len(list) :
                /\ list[k].byte_position >= 1
                /\ list[k].byte_position <= Len(map)
                /\ map[list[k].byte_position] = LF
            /\ \A k \in 1 .. (Len(list) - 1) :
                LET span == from_utf8(Slice(map, list[k].byte_position,
                                            list[k + 1].byte_position))
                IN  /\ list[k].byte_position < list[k + 1].byte_position
                    /\ span.ok
                    /\ LineFeedCount(span.chars) = 1
                    /\ span.chars[Len(span.chars)] = LF
            /\ \A b \in 1 .. list[Len(list)].byte_position :
                map[b] = LF =>
                    Cardinality({k \in 1 .. Len(list) : list[k].byte_position = b}) = 1

\* A cache of at least three positions built by more than one scan over a buffer
\* that holds a character other than a line feed.
C13_Witness ==
    /\ ValidBuffer
    /\ Len(line_ending_positions) >= 3
    /\ \E j \in 1 .. total_char_count : FullDecode[j] # LF
    /\ \E k \in 1 .. Len(calls) : Len(calls[k].before) = 2

\* s is a prefix of t.
IsPrefix(s, t) == Len(s) <= Len(t) /\ SubSeq(t, 1, Len(s)) = s

\* The cache after the call calls[k].
CacheAfter(k) == IF k < Len(calls) THEN calls[k + 1].before ELSE line_ending_positions

\* C14: the cache is append-only: for every call, whatever it returned, the cache
\* before the call is a prefix of the cache after it, and the cache is never empty.
C14_AppendOnly ==
    /\ Len(line_ending_positions) >= 1
    /\ \A k \in 1 .. Len(calls) :
        /\ Len(calls[k].before) >= 1
        /\ IsPrefix(calls[k].before, CacheAfter(k))

\* A call that returned OutOfBounds and a call that returned a character, each
\* of which lengthened a cache that already held a line ending.
C14_Witness ==
    /\ \E k \in 1 .. Len(calls) :
        /\ calls[k].result = OutOfBounds
        /\ Len(CacheAfter(k)) > Len(calls[k].before)
    /\ \E k \in 1 .. Len(calls) :
        /\ calls[k].result.kind = "Ok"
        /\ Len(calls[k].before) >= 2
        /\ Len(CacheAfter(k)) > Len(calls[k].before)

\* The first window of list that brackets the target of unicode_at(i), 0 if none.
FirstBracket(list, i) ==
    LET ws == BracketingWindows(list, i + 1)
    IN  IF ws = {} THEN 0 ELSE CHOOSE w \in ws : \A v \in ws : w <= v

\* What the cache-search step yields for unicode_at(i) from window w of list.
SearchYield(list, w, i) ==
    get_unicode_char_in_line(map, list[w].byte_position,
                             i + 1 - list[w].char_position, list[w + 1].byte_position)

\* C15: a call whose target is bracketed by an adjacent pair of cached positions
\* is answered by the cache search alone: its result, character or error, is the
\* one the bracketed span yields, no scan from the last cached position is run,
\* and the cache is left unchanged.
C15_BracketedAnsweredBySearch ==
    \A k \in 1 .. Len(calls) :
        LET w == FirstBracket(calls[k].before, calls[k].index)
        IN  (Representable(calls[k].index) /\ w # 0) =>
                /\ calls[k].result = SearchYield(calls[k].before, w, calls[k].index)
                /\ calls[k].walked = {}
                /\ CacheAfter(k) = calls[k].before

\* C16: when an adjacent pair (last, current) brackets the target, the bracketed
\* span holds a character at 0-based position target - last.char_position - 1,
\* and that character is what the call returns.
C16_SearchReturnsPositionInLine ==
    \A k \in 1 .. Len(calls) :
        LET list == calls[k].before
            w == FirstBracket(list, calls[k].index)
            span == from_utf8(Slice(map, list[w].byte_position, list[w + 1].byte_position))
            pos == (calls[k].index + 1) - list[w].char_position - 1
        IN  (Representable(calls[k].index) /\ w # 0) =>
                /\ span.ok
                /\ pos < Len(span.chars)
                /\ calls[k].result = Ok(span.chars[pos + 1])

\* C17: when no pair brackets the target and current is the last cached position,
\* the call returns the character whose 0-based offset among the characters
\* decoded from current.byte_position to the end of the buffer is
\* target - current.char_position - 1, and OutOfBounds exactly when there is no
\* character at that offset (stated for a well-formed tail).
C17_ExtensionReturnsOffset ==
    \A k \in 1 .. Len(calls) :
        LET list == calls[k].before
            current == list[Len(list)]
            tail == from_utf8(Slice(map, current.byte_position, Len(map)))
            offset == (calls[k].index + 1) - current.char_position - 1
        IN  ( /\ Representable(calls[k].index)
              /\ FirstBracket(list, calls[k].index) = 0
              /\ tail.ok )
            => /\ offset >= 0
               /\ calls[k].result = IF offset < Len(tail.chars)
                                    THEN Ok(tail.chars[offset + 1])
                                    ELSE OutOfBounds

\* The characters of the buffer up to its first malformed sequence.
WellFormedPrefix == DecodeFrom(map, 1).chars

\* C18: locality of validation: when the bytes from the start of the buffer up to
\* and including the character at logical index i are well-formed, unicode_at(i)
\* returns that character in every reachable state, also when malformed bytes
\* occur later in the buffer (stated for the buffers that hold malformed bytes).
C18_LaterMalformedBytesDoNotMatter ==
    ~ValidBuffer =>
        \A k \in 1 .. Len(calls) :
            calls[k].index < Len(WellFormedPrefix) =>
                calls[k].result = Ok(WellFormedPrefix[calls[k].index + 1])

\* C19: unicode_at of the largest usize, whose successor is not representable,
\* returns Err(OutOfBounds) on every buffer and in every reachable state.
C19_MaxIndexIsOutOfBounds ==
    \A k \in 1 .. Len(calls) :
        calls[k].index = UsizeMax => calls[k].result = OutOfBounds

====
